---- MODULE Spec2Model ----
(***************************************************************************)
(* The TTL cache of package secrets (type Cache): a map of                *)
(* string keys to entries with an absolute expiry, bounded by maxSize,    *)
(* with metrics counters, a background cleanup loop and Close.            *)
(*                                                                         *)
(* Spec      every operation runs to completion on its own (one at a      *)
(*           time): a step is one whole call, or one clock tick.          *)
(* SpecConc  goroutines run the operations statement by statement under   *)
(*           the sync.RWMutex of the cache.                               *)
(*                                                                         *)
(* The clock is discrete; a call that runs under the lock reads one       *)
(* instant.                                                               *)
(***************************************************************************)
EXTENDS Integers, Sequences, FiniteSets, TLC

\* ---- bounds -------------------------------------------------------------
MaxTime == 3        \* the clock runs over 0..MaxTime
MaxCalls == 3       \* calls of the public operations per behaviour of Spec
MaxConcCalls == 2   \* calls of the public operations per behaviour of SpecConc
MaxLiveCalls == 2   \* calls of the public operations per behaviour of SpecLive
Ttl == 2            \* the ttl given to NewCache, in clock units
MaxSize == 2        \* the maxSize given to NewCache

Keys == {"", "a", "b"}
Values == {"v1", "v2"}
Nil == "nil"        \* Go's nil interface value returned by Get

\* ---- data ---------------------------------------------------------------
ZeroTime == -1      \* time.Time{}: earlier than every clock reading

CacheEntry(value, expiresAt) == [Value |-> value, ExpiresAt |-> expiresAt]

\* a comparison with receiver and argument swapped: e.ExpiresAt.After(time.Now())
IsExpired_Swapped(e, t) == e.ExpiresAt > t

\* time.Now().After(e.ExpiresAt) at clock reading t
IsExpired(e, t) == t > e.ExpiresAt

CacheMetrics == [Hits |-> 0, Misses |-> 0, Evictions |-> 0, TotalReads |-> 0, TotalSize |-> 0]

\* the map without some keys
Without(es, ks) == [k \in (DOMAIN es) \ ks |-> es[k]]

\* the map with one key (re)bound
With(es, key, e) == [k \in (DOMAIN es) \cup {key} |-> IF k = key THEN e ELSE es[k]]

\* the orders in which a range loop may visit the keys of a map
Orders(S) == {o \in [1..Cardinality(S) -> S] : \A k \in S : \E i \in 1..Cardinality(S) : o[i] = k}

\* ---- helpers that run under the write lock ------------------------------

\* keys deleted by evictExpiredEntries at clock reading t
ExpiredKeys(es, t) == {k \in DOMAIN es : IsExpired(es[k], t)}

\* a sweep that also deletes the entries that expire at this very instant and
\* counts one eviction for the whole sweep
evictExpiredEntries_Eager(es, m, t) ==
    [entries |-> Without(es, {k \in DOMAIN es : t >= es[k].ExpiresAt}),
     metrics |-> [m EXCEPT !.Evictions = @ + 1],
     swept   |-> {k \in DOMAIN es : t >= es[k].ExpiresAt}]

\* evictExpiredEntries: delete every expired entry, count one eviction each
evictExpiredEntries(es, m, t) ==
    [entries |-> Without(es, ExpiredKeys(es, t)),
     metrics |-> [m EXCEPT !.Evictions = @ + Cardinality(ExpiredKeys(es, t))],
     swept   |-> ExpiredKeys(es, t)]

\* the range loop of evictOldestEntry over the keys in the order given:
\* the pair (oldestKey, oldestTime) after visiting order[i..]
RECURSIVE OldestScan(_, _, _, _, _)
OldestScan(es, order, i, oldestKey, oldestTime) ==
    IF i > Len(order) THEN [key |-> oldestKey, time |-> oldestTime]
    ELSE IF oldestKey = "" \/ es[order[i]].ExpiresAt < oldestTime
         THEN OldestScan(es, order, i + 1, order[i], es[order[i]].ExpiresAt)
         ELSE OldestScan(es, order, i + 1, oldestKey, oldestTime)

\* evictOldestEntry: delete the key the scan ends on, unless it is ""
evictOldestEntry(es, m, order) ==
    LET oldestKey == OldestScan(es, order, 1, "", ZeroTime).key
    IN  IF oldestKey # ""
        THEN [entries |-> Without(es, {oldestKey}),
              metrics |-> [m EXCEPT !.Evictions = @ + 1],
              evicted |-> {oldestKey}]
        ELSE [entries |-> es, metrics |-> m, evicted |-> {}]

\* ---- bodies of the operations (what runs between Lock and Unlock) -------

\* a Get that returns nil for an expired entry without counting the miss
GetBody_ExpiredUncounted(es, m, key, t) ==
    LET m1 == [m EXCEPT !.TotalReads = @ + 1]
    IN  IF key \notin DOMAIN es
        THEN [ret |-> Nil, metrics |-> [m1 EXCEPT !.Misses = @ + 1]]
        ELSE IF IsExpired(es[key], t)
             THEN [ret |-> Nil, metrics |-> m1]
             ELSE [ret |-> es[key].Value, metrics |-> [m1 EXCEPT !.Hits = @ + 1]]

\* Get: the result and the metrics after it
GetBody(es, m, key, t) ==
    LET m1 == [m EXCEPT !.TotalReads = @ + 1]
    IN  IF key \notin DOMAIN es \/ IsExpired(es[key], t)
        THEN [ret |-> Nil, metrics |-> [m1 EXCEPT !.Misses = @ + 1]]
        ELSE [ret |-> es[key].Value, metrics |-> [m1 EXCEPT !.Hits = @ + 1]]

\* a Set that stamps the entry with time.Now() and forgets to add the ttl
SetBody_NoTtl(es, m, key, value, t, order) ==
    LET full1 == Cardinality(DOMAIN es) >= MaxSize
        s1    == IF full1 THEN evictExpiredEntries(es, m, t)
                 ELSE [entries |-> es, metrics |-> m, swept |-> {}]
        full2 == full1 /\ Cardinality(DOMAIN s1.entries) >= MaxSize
        s2    == IF full2 THEN evictOldestEntry(s1.entries, s1.metrics, order)
                 ELSE [entries |-> s1.entries, metrics |-> s1.metrics, evicted |-> {}]
        es3   == With(s2.entries, key, CacheEntry(value, t))
    IN  [entries |-> es3,
         metrics |-> [s2.metrics EXCEPT !.TotalSize = Cardinality(DOMAIN es3)],
         swept   |-> s1.swept,
         evicted |-> s2.evicted]

\* a Set that at capacity evicts the oldest entry without sweeping first
SetBody_EvictsFirst(es, m, key, value, t, order) ==
    LET full1 == Cardinality(DOMAIN es) >= MaxSize
        s2    == IF full1 THEN evictOldestEntry(es, m, order)
                 ELSE [entries |-> es, metrics |-> m, evicted |-> {}]
        es3   == With(s2.entries, key, CacheEntry(value, t + Ttl))
    IN  [entries |-> es3,
         metrics |-> [s2.metrics EXCEPT !.TotalSize = Cardinality(DOMAIN es3)],
         swept   |-> {},
         evicted |-> s2.evicted]

\* Set: sweep and evict when at capacity, then insert; order is the
\* iteration order of the range loop in evictOldestEntry
SetBody(es, m, key, value, t, order) ==
    LET full1 == Cardinality(DOMAIN es) >= MaxSize
        s1    == IF full1 THEN evictExpiredEntries(es, m, t)
                 ELSE [entries |-> es, metrics |-> m, swept |-> {}]
        full2 == full1 /\ Cardinality(DOMAIN s1.entries) >= MaxSize
        s2    == IF full2 THEN evictOldestEntry(s1.entries, s1.metrics, order)
                 ELSE [entries |-> s1.entries, metrics |-> s1.metrics, evicted |-> {}]
        es3   == With(s2.entries, key, CacheEntry(value, t + Ttl))
    IN  [entries |-> es3,
         metrics |-> [s2.metrics EXCEPT !.TotalSize = Cardinality(DOMAIN es3)],
         swept   |-> s1.swept,
         evicted |-> s2.evicted]

\* the maps evictOldestEntry can be called on by Set, with their orders
SetOrders(es, t) == Orders(DOMAIN Without(es, ExpiredKeys(es, t)))

\* a Delete that counts the entry it removes as an eviction
DeleteBody_CountsEviction(es, m, key) ==
    [entries |-> Without(es, {key}),
     metrics |-> [m EXCEPT !.TotalSize = Cardinality(DOMAIN Without(es, {key})),
                           !.Evictions = IF key \in DOMAIN es THEN @ + 1 ELSE @]]

\* Delete: delete(c.entries, key), TotalSize = len(c.entries)
DeleteBody(es, m, key) ==
    [entries |-> Without(es, {key}),
     metrics |-> [m EXCEPT !.TotalSize = Cardinality(DOMAIN Without(es, {key}))]]

\* a Clear that starts the metrics afresh as well
ClearBody_ResetsMetrics(es, m) ==
    [entries |-> Without(es, DOMAIN es),
     metrics |-> CacheMetrics]

ClearBody(es, m) ==
    [entries |-> Without(es, DOMAIN es),
     metrics |-> [m EXCEPT !.TotalSize = 0]]

\* a cleanup that leaves TotalSize as it was
CleanupBody_StaleSize(es, m, t) ==
    LET s == evictExpiredEntries(es, m, t)
    IN  [entries |-> s.entries,
         metrics |-> s.metrics,
         swept   |-> s.swept]

\* cleanup: evictExpiredEntries, then TotalSize = len(c.entries)
CleanupBody(es, m, t) ==
    LET s == evictExpiredEntries(es, m, t)
    IN  [entries |-> s.entries,
         metrics |-> [s.metrics EXCEPT !.TotalSize = Cardinality(DOMAIN s.entries)],
         swept   |-> s.swept]

\* ---- state --------------------------------------------------------------
VARIABLES
    entries,    \* Cache.entries
    metrics,    \* Cache.metrics
    now,        \* the clock read by time.Now()
    stopCh,     \* Cache.stopCh: "open" or "closed"
    once,       \* Cache.once: TRUE when its function has run
    loopPc,     \* cleanupLoop: "select" or "returned"
    tickerC,    \* ticker.C, a channel of capacity 1: ticks waiting in it
    nCalls,     \* history: calls of the public operations made
    nGets,      \* history: Get calls made
    written,    \* history: per key, the value and time of its last Set, while
                \* no Delete, Clear, overwrite or capacity eviction removed it
    last,       \* history: the call completed last
    rw,         \* Cache.mu: the goroutine holding it for writing, those holding it for reading
    pc,         \* per goroutine: the statement it is at
    loc,        \* per goroutine: its arguments and local variables
    snap,       \* history: the value the last Metrics call returned
    nCloses,    \* history: the Close calls that returned, counted by SpecConc
    rate,       \* the value the last HitRate call returned, as a fraction
    store       \* the configuration given to NewAWSSecretsTenantStore and its result

vars == <<entries, metrics, now, stopCh, once, loopPc, tickerC, nCalls, nGets, written, last,
          rw, pc, loc, snap, nCloses, rate, store>>

\* the state only SpecConc moves, and the history its steps outside the
\* write lock leave alone
cvars == <<rw, pc, loc, snap, nCloses, rate, store>>
hvars == <<written, last>>

\* the goroutines that call the cache
Threads == {"g1", "g2"}

NoLocals == [key |-> "", val |-> Nil, tmp |-> 0, ret |-> Nil, i |-> 0, m |-> CacheMetrics]

\* the period of the ticker: c.ttl / 2
Period == Ttl \div 2

EmptyMap == Without(<<>>, {})

Written(value, t) == [val |-> value, t |-> t]

\* the change of the cumulative counters from m to m2
Delta(m, m2) ==
    [Hits |-> m2.Hits - m.Hits, Misses |-> m2.Misses - m.Misses,
     Evictions |-> m2.Evictions - m.Evictions, TotalReads |-> m2.TotalReads - m.TotalReads]

NoCall == [op |-> "none", key |-> "", val |-> Nil, ret |-> Nil, t |-> 0,
           d |-> Delta(CacheMetrics, CacheMetrics), swept |-> {}, evicted |-> {},
           removed |-> {}, n |-> 0, fetched |-> FALSE, resp |-> "none"]

Call(op, key, val, ret, m2, swept, evicted) ==
    [op |-> op, key |-> key, val |-> val, ret |-> ret, t |-> now,
     d |-> Delta(metrics, m2), swept |-> swept, evicted |-> evicted,
     removed |-> IF op = "Clear" THEN DOMAIN entries
                 ELSE IF op = "Delete" THEN {key} \cap DOMAIN entries
                 ELSE {},
     n |-> 0, fetched |-> FALSE, resp |-> "none"]

\* no cache, and the cache NewCache(ttl, maxSize) returns: empty, its
\* cleanup loop started
NoCache == [ttl |-> 0, maxSize |-> 0, entries |-> EmptyMap, stopCh |-> "none", loopPc |-> "none"]
NewCache(ttl, maxSize) ==
    [ttl |-> ttl, maxSize |-> maxSize, entries |-> EmptyMap, stopCh |-> "open", loopPc |-> "select"]

\* no call of NewAWSSecretsTenantStore yet, given cfg and whether
\* loadAWSConfig succeeds
NoResult == [called |-> FALSE, err |-> FALSE, cache |-> NoCache]
NoStore ==
    [cfg |-> [Prefix |-> "tenants", Cache |-> 0, MaxSize |-> 0], awsOK |-> TRUE, res |-> NoResult]

\* NewCache: an empty cache, the cleanup loop started
Init ==
    /\ entries = EmptyMap
    /\ metrics = CacheMetrics
    /\ now = 0
    /\ stopCh = "open"
    /\ once = FALSE
    /\ loopPc = "select"
    /\ tickerC = 0
    /\ nGets = 0
    /\ nCalls = 0
    /\ written = EmptyMap
    /\ last = NoCall
    /\ rw = [writer |-> "none", readers |-> {}]
    /\ pc = [t \in Threads |-> "idle"]
    /\ nCloses = 0
    /\ rate = [num |-> 0, den |-> 1]
    /\ store = NoStore
    /\ loc = [t \in Threads |-> NoLocals]
    /\ snap = CacheMetrics

\* ---- CacheMetrics.HitRate ------------------------------------------------
MaxCount == 4

\* a hit rate without the test for no reads
HitRate_Unguarded(m) == [num |-> m.Hits * 100, den |-> m.TotalReads]

\* HitRate: float64(Hits) / float64(TotalReads) * 100.0, and 0.0 when there
\* were no reads; the quotient is kept as the fraction num / den
HitRate(m) ==
    IF m.TotalReads = 0 THEN [num |-> 0, den |-> 1]
    ELSE [num |-> m.Hits * 100, den |-> m.TotalReads]

\* the snapshots HitRate is called on: CacheMetrics values with any counters
Snapshots ==
    {[CacheMetrics EXCEPT !.Hits = h, !.Misses = ms, !.TotalReads = n] :
        h \in 0..MaxCount, ms \in 0..MaxCount, n \in 0..MaxCount}

InitHitRate ==
    /\ snap \in Snapshots
    /\ entries = EmptyMap
    /\ metrics = CacheMetrics
    /\ now = 0
    /\ stopCh = "open"
    /\ once = FALSE
    /\ loopPc = "select"
    /\ tickerC = 0
    /\ nGets = 0
    /\ nCalls = 0
    /\ written = EmptyMap
    /\ last = NoCall
    /\ rw = [writer |-> "none", readers |-> {}]
    /\ pc = [t \in Threads |-> "idle"]
    /\ loc = [t \in Threads |-> NoLocals]
    /\ nCloses = 0
    /\ rate = [num |-> 0, den |-> 1]
    /\ store = NoStore

\* snap.HitRate()
HitRateCall ==
    /\ last.op = "none"
    /\ rate' = HitRate(snap)
    /\ last' = [NoCall EXCEPT !.op = "HitRate"]
    /\ UNCHANGED <<entries, metrics, now, stopCh, once, loopPc, tickerC, nCalls, nGets, written,
                   rw, pc, loc, snap, nCloses, store>>

SpecHitRate == InitHitRate /\ [][HitRateCall]_vars

\* ---- Spec: one call at a time -------------------------------------------

\* a Get that deletes the expired entry it finds
Get_DeletesExpired(key) ==
    /\ nCalls < MaxCalls
    /\ nCalls' = nCalls + 1
    /\ LET r == GetBody(entries, metrics, key, now)
       IN  /\ metrics' = r.metrics
           /\ last' = Call("Get", key, Nil, r.ret, r.metrics, {}, {})
    /\ nGets' = nGets + 1
    /\ entries' = Without(entries, {key} \cap ExpiredKeys(entries, now))
    /\ UNCHANGED <<now, stopCh, once, loopPc, tickerC, written, cvars>>

\* a Get whose hit renews the expiry of the entry
Get_Slides(key) ==
    /\ nCalls < MaxCalls
    /\ nCalls' = nCalls + 1
    /\ LET r == GetBody(entries, metrics, key, now)
       IN  /\ metrics' = r.metrics
           /\ last' = Call("Get", key, Nil, r.ret, r.metrics, {}, {})
           /\ entries' = IF r.ret = Nil THEN entries
                         ELSE With(entries, key, CacheEntry(r.ret, now + Ttl))
    /\ nGets' = nGets + 1
    /\ UNCHANGED <<now, stopCh, once, loopPc, tickerC, written, cvars>>

\* Get: the lookup under the lock, counting the read and the hit or miss
Get(key) ==
    /\ nCalls < MaxCalls
    /\ nCalls' = nCalls + 1
    /\ LET r == GetBody(entries, metrics, key, now)
       IN  /\ metrics' = r.metrics
           /\ last' = Call("Get", key, Nil, r.ret, r.metrics, {}, {})
    /\ nGets' = nGets + 1
    /\ UNCHANGED <<entries, now, stopCh, once, loopPc, tickerC, written, cvars>>

Set(key, value) ==
    /\ nCalls < MaxCalls
    /\ nCalls' = nCalls + 1
    /\ \E order \in SetOrders(entries, now) :
         LET r == SetBody(entries, metrics, key, value, now, order)
         IN  /\ entries' = r.entries
             /\ metrics' = r.metrics
             /\ written' = With(Without(written, r.evicted), key, Written(value, now))
             /\ last' = Call("Set", key, value, Nil, r.metrics, r.swept, r.evicted)
    /\ UNCHANGED <<now, stopCh, once, loopPc, tickerC, nGets, cvars>>

Delete(key) ==
    /\ nCalls < MaxCalls
    /\ nCalls' = nCalls + 1
    /\ LET r == DeleteBody(entries, metrics, key)
       IN  /\ entries' = r.entries
           /\ metrics' = r.metrics
           /\ last' = Call("Delete", key, Nil, Nil, r.metrics, {}, {})
    /\ written' = Without(written, {key})
    /\ UNCHANGED <<now, stopCh, once, loopPc, tickerC, nGets, cvars>>

Clear ==
    /\ nCalls < MaxCalls
    /\ nCalls' = nCalls + 1
    /\ LET r == ClearBody(entries, metrics)
       IN  /\ entries' = r.entries
           /\ metrics' = r.metrics
           /\ last' = Call("Clear", "", Nil, Nil, r.metrics, {}, {})
    /\ written' = EmptyMap
    /\ UNCHANGED <<now, stopCh, once, loopPc, tickerC, nGets, cvars>>

\* Size: len(c.entries)
SizeBody(es) == Cardinality(DOMAIN es)

Size ==
    /\ nCalls < MaxCalls
    /\ nCalls' = nCalls + 1
    /\ last' = [Call("Size", "", Nil, Nil, metrics, {}, {}) EXCEPT !.n = SizeBody(entries)]
    /\ UNCHANGED <<entries, metrics, now, stopCh, once, loopPc, tickerC, nGets, written, cvars>>

\* a Metrics that hands out the counters and starts them afresh
Metrics_Resets ==
    /\ nCalls < MaxCalls
    /\ nCalls' = nCalls + 1
    /\ snap' = metrics
    /\ metrics' = [CacheMetrics EXCEPT !.TotalSize = metrics.TotalSize]
    /\ last' = Call("Metrics", "", Nil, Nil, metrics, {}, {})
    /\ UNCHANGED <<entries, now, stopCh, once, loopPc, tickerC, nGets, written,
                   rw, pc, loc, nCloses, rate, store>>

\* Metrics: a copy of c.metrics
Metrics ==
    /\ nCalls < MaxCalls
    /\ nCalls' = nCalls + 1
    /\ snap' = metrics
    /\ last' = Call("Metrics", "", Nil, Nil, metrics, {}, {})
    /\ UNCHANGED <<entries, metrics, now, stopCh, once, loopPc, tickerC, nGets, written,
                   rw, pc, loc, nCloses, rate, store>>

\* close(c.stopCh): closing a channel that is closed already panics
CloseChan(ch) == IF ch = "open" THEN "closed" ELSE "panic"

\* a Once that never records that its function ran
OnceDone_Never(o) == FALSE

\* sync.Once: Do returns without calling the function when it has run
OnceDone(o) == o

\* Close: once.Do(close(stopCh))
Close ==
    /\ nCalls < MaxCalls
    /\ nCalls' = nCalls + 1
    /\ once' = TRUE
    /\ stopCh' = IF OnceDone(once) THEN stopCh ELSE CloseChan(stopCh)
    /\ last' = Call("Close", "", Nil, Nil, metrics, {}, {})
    /\ UNCHANGED <<entries, metrics, now, loopPc, tickerC, nGets, written, cvars>>

\* a sweep that also runs when the loop has returned
CleanupTick_Unstopped ==
    /\ tickerC = 1
    /\ tickerC' = 0
    /\ LET r == CleanupBody(entries, metrics, now)
       IN  /\ entries' = r.entries
           /\ metrics' = r.metrics
           /\ last' = Call("cleanup", "", Nil, Nil, r.metrics, r.swept, {})
    /\ UNCHANGED <<now, stopCh, once, loopPc, nCalls, nGets, written, cvars>>

\* cleanupLoop, case <-ticker.C: cleanup()
CleanupTick ==
    /\ loopPc = "select"
    /\ tickerC = 1
    /\ tickerC' = 0
    /\ LET r == CleanupBody(entries, metrics, now)
       IN  /\ entries' = r.entries
           /\ metrics' = r.metrics
           /\ last' = Call("cleanup", "", Nil, Nil, r.metrics, r.swept, {})
    /\ UNCHANGED <<now, stopCh, once, loopPc, nCalls, nGets, written, cvars>>

\* a loop that may return while the stop signal is still open
LoopReturn_Unguarded ==
    /\ loopPc = "select"
    /\ loopPc' = "returned"
    /\ UNCHANGED <<entries, metrics, now, stopCh, once, tickerC, nCalls, nGets, written, last, cvars>>

\* cleanupLoop, case <-c.stopCh: return (and the deferred ticker.Stop())
LoopReturn ==
    /\ loopPc = "select"
    /\ stopCh = "closed"
    /\ loopPc' = "returned"
    /\ UNCHANGED <<entries, metrics, now, stopCh, once, tickerC, nCalls, nGets, written, last, cvars>>

\* a clock whose ticker never sends
Tick_NoTicker ==
    /\ now < MaxTime
    /\ now' = now + 1
    /\ UNCHANGED <<entries, metrics, stopCh, once, loopPc, tickerC, nCalls, nGets, written, last, cvars>>

\* the clock advances; a running ticker sends on ticker.C every Period
\* (the send is dropped when a tick is already waiting)
Tick ==
    /\ now < MaxTime
    /\ now' = now + 1
    /\ tickerC' = IF loopPc = "select" /\ (now + 1) % Period = 0 THEN 1 ELSE tickerC
    /\ UNCHANGED <<entries, metrics, stopCh, once, loopPc, nCalls, nGets, written, last, cvars>>

Next ==
    \/ \E key \in Keys : Get(key)
    \/ \E key \in Keys, value \in Values : Set(key, value)
    \/ \E key \in Keys : Delete(key)
    \/ Clear
    \/ Size
    \/ Metrics
    \/ Close
    \/ CleanupTick
    \/ LoopReturn
    \/ Tick

Spec == Init /\ [][Next]_vars

\* the scheduler runs the cleanup goroutine, and a select with the closed
\* stopCh ready takes that case sooner or later, ticks pending or not; a
\* select with only a tick ready takes the tick
LiveBudget == nCalls < MaxLiveCalls
NextLive ==
    \/ LiveBudget /\ \E key \in Keys : Get(key)
    \/ LiveBudget /\ \E key \in Keys, value \in Values : Set(key, value)
    \/ LiveBudget /\ \E key \in Keys : Delete(key)
    \/ LiveBudget /\ Clear
    \/ LiveBudget /\ Size
    \/ LiveBudget /\ Metrics
    \/ LiveBudget /\ Close
    \/ CleanupTick
    \/ LoopReturn
    \/ Tick

SpecLive == Init /\ [][NextLive]_vars /\ WF_vars(LoopReturn) /\ WF_vars(CleanupTick)

\* ---- SpecStore: AWSSecretsTenantStore over the cache ---------------------
Tenants == {"", "a", "b"}
Fail == "fail"
Err == "error"

\* cacheKey := fmt.Sprintf("db_%s", tenantID)
CacheKey(tenantID) == "db_" \o tenantID

\* what GetSecretValue answers: an error, a result without SecretString, or
\* a SecretString that is the JSON of a configuration or no JSON at all
StoreError == "storeError"
NilSecret == "nilSecret"
Responses == {StoreError, NilSecret, "{", "{v1}", "{v2}"}

\* json.Unmarshal and toDatabaseConfig: the configuration a secret string
\* holds, Fail when it is not JSON
Unmarshal(secret) ==
    IF secret = "{v1}" THEN "v1" ELSE IF secret = "{v2}" THEN "v2" ELSE Fail

\* a fetch that takes a secret it cannot parse for the first configuration
fetchDatabaseConfig_Lenient(resp) ==
    IF resp = StoreError THEN Fail
    ELSE IF resp = NilSecret THEN Fail
    ELSE IF Unmarshal(resp) = Fail THEN "v1"
    ELSE Unmarshal(resp)

\* fetchDatabaseConfig: the configuration parsed from the secret, Fail on
\* a store error, an empty secret value or a secret that does not parse
fetchDatabaseConfig(resp) ==
    IF resp = StoreError THEN Fail
    ELSE IF resp = NilSecret THEN Fail
    ELSE Unmarshal(resp)

\* the record of a DBConfig call: val is what fetchDatabaseConfig returns for
\* the store's answer resp, fetched whether the call asked the store
StoreCall(key, resp, fetched, ret, m2, swept, evicted) ==
    [Call("DBConfig", key, fetchDatabaseConfig(resp), ret, m2, swept, evicted)
        EXCEPT !.fetched = fetched, !.resp = resp]

\* a DBConfig that returns what it fetched without caching it
DBConfig_NoStore(tenantID, resp) ==
    /\ nCalls < MaxCalls
    /\ nCalls' = nCalls + 1
    /\ IF tenantID = ""
       THEN /\ last' = StoreCall("", resp, FALSE, Err, metrics, {}, {})
            /\ UNCHANGED <<entries, metrics, written, nGets>>
       ELSE LET key   == CacheKey(tenantID)
                g     == GetBody(entries, metrics, key, now)
                fetch == fetchDatabaseConfig(resp)
            IN  /\ nGets' = nGets + 1
                /\ IF g.ret # Nil
                   THEN /\ metrics' = g.metrics
                        /\ last' = StoreCall(key, resp, FALSE, g.ret, g.metrics, {}, {})
                        /\ UNCHANGED <<entries, written>>
                   ELSE IF fetch = Fail
                   THEN /\ metrics' = g.metrics
                        /\ last' = StoreCall(key, resp, TRUE, Err, g.metrics, {}, {})
                        /\ UNCHANGED <<entries, written>>
                   ELSE /\ metrics' = g.metrics
                        /\ last' = StoreCall(key, resp, TRUE, fetch, g.metrics, {}, {})
                        /\ UNCHANGED <<entries, written>>
    /\ UNCHANGED <<now, stopCh, once, loopPc, tickerC, cvars>>

\* DBConfig: the cached configuration when Get finds one, otherwise the one
\* fetched from the secret store, which is cached; resp is what the store
\* answers when it is asked
DBConfig(tenantID, resp) ==
    /\ nCalls < MaxCalls
    /\ nCalls' = nCalls + 1
    /\ IF tenantID = ""
       THEN /\ last' = StoreCall("", resp, FALSE, Err, metrics, {}, {})
            /\ UNCHANGED <<entries, metrics, written, nGets>>
       ELSE LET key   == CacheKey(tenantID)
                g     == GetBody(entries, metrics, key, now)
                fetch == fetchDatabaseConfig(resp)
            IN  /\ nGets' = nGets + 1
                /\ IF g.ret # Nil
                   THEN /\ metrics' = g.metrics
                        /\ last' = StoreCall(key, resp, FALSE, g.ret, g.metrics, {}, {})
                        /\ UNCHANGED <<entries, written>>
                   ELSE IF fetch = Fail
                   THEN /\ metrics' = g.metrics
                        /\ last' = StoreCall(key, resp, TRUE, Err, g.metrics, {}, {})
                        /\ UNCHANGED <<entries, written>>
                   ELSE \E order \in SetOrders(entries, now) :
                          LET r == SetBody(entries, g.metrics, key, fetch, now, order)
                          IN  /\ entries' = r.entries
                              /\ metrics' = r.metrics
                              /\ written' = With(Without(written, r.evicted), key, Written(fetch, now))
                              /\ last' = StoreCall(key, resp, TRUE, fetch, r.metrics, r.swept, r.evicted)
    /\ UNCHANGED <<now, stopCh, once, loopPc, tickerC, cvars>>

\* InvalidateCache: s.cache.Delete(cacheKey)
InvalidateCache(tenantID) == Delete(CacheKey(tenantID))

\* ClearCache: s.cache.Clear()
ClearCache == Clear

\* AWSSecretsTenantStore.CacheMetrics: s.cache.Metrics()
StoreCacheMetrics == Metrics

\* AWSSecretsTenantStore.Close: s.cache.Close()
StoreClose == Close

NextStore ==
    \/ \E tenantID \in Tenants, resp \in Responses : DBConfig(tenantID, resp)
    \/ \E tenantID \in Tenants : InvalidateCache(tenantID)
    \/ ClearCache
    \/ StoreCacheMetrics
    \/ StoreClose
    \/ CleanupTick
    \/ LoopReturn
    \/ Tick

SpecStore == Init /\ [][NextStore]_vars

\* ---- SpecNewStore: NewAWSSecretsTenantStore --------------------------------
MaxCfg == 3
\* the defaults: 5 * time.Minute, in seconds, and 1000 entries
DefaultCacheTTL == 300
DefaultCacheMaxSize == 1000

\* the AWSSecretsConfig values: an empty or a set prefix, durations and sizes
\* below, at and above zero
Configs ==
    [Prefix : {"", "tenants"}, Cache : (-1)..MaxCfg, MaxSize : (-1)..MaxCfg]

\* a constructor that hands the configured policy to NewCache as it is
NewAWSSecretsTenantStore_Unchecked(cfg, awsOK) ==
    IF cfg.Prefix = "" THEN [called |-> TRUE, err |-> TRUE, cache |-> NoCache]
    ELSE IF ~awsOK THEN [called |-> TRUE, err |-> TRUE, cache |-> NoCache]
    ELSE [called |-> TRUE, err |-> FALSE, cache |-> NewCache(cfg.Cache, cfg.MaxSize)]

\* NewAWSSecretsTenantStore: an error for an empty prefix or when
\* loadAWSConfig fails, else a store over NewCache(cacheTTL, cacheMaxSize)
NewAWSSecretsTenantStore(cfg, awsOK) ==
    IF cfg.Prefix = "" THEN [called |-> TRUE, err |-> TRUE, cache |-> NoCache]
    ELSE IF ~awsOK THEN [called |-> TRUE, err |-> TRUE, cache |-> NoCache]
    ELSE LET cacheTTL     == IF cfg.Cache > 0 THEN cfg.Cache ELSE DefaultCacheTTL
             cacheMaxSize == IF cfg.MaxSize > 0 THEN cfg.MaxSize ELSE DefaultCacheMaxSize
         IN  [called |-> TRUE, err |-> FALSE, cache |-> NewCache(cacheTTL, cacheMaxSize)]

InitNewStore ==
    /\ \E cfg \in Configs, awsOK \in BOOLEAN :
           store = [cfg |-> cfg, awsOK |-> awsOK, res |-> NoResult]
    /\ entries = EmptyMap
    /\ metrics = CacheMetrics
    /\ now = 0
    /\ stopCh = "open"
    /\ once = FALSE
    /\ loopPc = "select"
    /\ tickerC = 0
    /\ nGets = 0
    /\ nCalls = 0
    /\ written = EmptyMap
    /\ last = NoCall
    /\ rw = [writer |-> "none", readers |-> {}]
    /\ pc = [t \in Threads |-> "idle"]
    /\ loc = [t \in Threads |-> NoLocals]
    /\ snap = CacheMetrics
    /\ nCloses = 0
    /\ rate = [num |-> 0, den |-> 1]

\* NewAWSSecretsTenantStore(ctx, logger, cfg)
NewStoreCall ==
    /\ ~store.res.called
    /\ store' = [store EXCEPT !.res = NewAWSSecretsTenantStore(store.cfg, store.awsOK)]
    /\ UNCHANGED <<entries, metrics, now, stopCh, once, loopPc, tickerC, nCalls, nGets, written,
                   last, rw, pc, loc, snap, nCloses, rate>>

SpecNewStore == InitNewStore /\ [][NewStoreCall]_vars

\* ---- SpecConc: goroutines under the RWMutex -----------------------------
\* A step is one statement of one goroutine: taking or releasing c.mu, one
\* load or one store of a shared counter, or the statements of a writer
\* between Lock and Unlock (nothing else runs while the write lock is held).

\* c.mu.RLock() returns when no goroutine holds the write lock
CanRLock_Always == TRUE

CanRLock == rw.writer = "none"
\* c.mu.Lock() returns when no goroutine holds the lock at all
CanLock == rw.writer = "none" /\ rw.readers = {}

Goto(t, label) == pc' = [pc EXCEPT ![t] = label]

\* a goroutine calls an operation with its arguments
Begin(t, label, key, value) ==
    /\ pc[t] = "idle"
    /\ nCalls < MaxConcCalls
    /\ nCalls' = nCalls + 1
    /\ Goto(t, label)
    /\ loc' = [loc EXCEPT ![t] = [NoLocals EXCEPT !.key = key, !.val = value]]

RLock(t, from, to) ==
    /\ pc[t] = from
    /\ CanRLock
    /\ rw' = [rw EXCEPT !.readers = @ \cup {t}]
    /\ Goto(t, to)

\* the deferred c.mu.RUnlock() and the return: the locals are gone
RUnlock(t, from) ==
    /\ pc[t] = from
    /\ rw' = [rw EXCEPT !.readers = @ \ {t}]
    /\ Goto(t, "idle")
    /\ loc' = [loc EXCEPT ![t] = NoLocals]

Lock(t, from, to) ==
    /\ pc[t] = from
    /\ CanLock
    /\ rw' = [rw EXCEPT !.writer = t]
    /\ Goto(t, to)

\* a return that leaves the write lock held
Unlock_Keeps(t, from) ==
    /\ pc[t] = from
    /\ rw' = rw
    /\ Goto(t, "idle")
    /\ loc' = [loc EXCEPT ![t] = NoLocals]

\* the deferred c.mu.Unlock() and the return
Unlock(t, from) ==
    /\ pc[t] = from
    /\ rw' = [rw EXCEPT !.writer = "none"]
    /\ Goto(t, "idle")
    /\ loc' = [loc EXCEPT ![t] = NoLocals]

\* -- Get
GetCall(t, key) ==
    /\ Begin(t, "GetRLock", key, Nil)
    /\ nGets' = nGets + 1
    /\ UNCHANGED <<entries, metrics, now, stopCh, once, loopPc, tickerC, rw, snap, nCloses, rate, store, hvars>>

GetRLock(t) ==
    /\ RLock(t, "GetRLock", "GetLoadTotalReads")
    /\ UNCHANGED <<entries, metrics, now, stopCh, once, loopPc, tickerC, nCalls, nGets, loc, snap, nCloses, rate, store, hvars>>

\* c.metrics.TotalReads++, the load
GetLoadTotalReads(t) ==
    /\ pc[t] = "GetLoadTotalReads"
    /\ loc' = [loc EXCEPT ![t].tmp = metrics.TotalReads]
    /\ Goto(t, "GetStoreTotalReads")
    /\ UNCHANGED <<entries, metrics, now, stopCh, once, loopPc, tickerC, nCalls, nGets, rw, snap, nCloses, rate, store, hvars>>

\* c.metrics.TotalReads++, the store
GetStoreTotalReads(t) ==
    /\ pc[t] = "GetStoreTotalReads"
    /\ metrics' = [metrics EXCEPT !.TotalReads = loc[t].tmp + 1]
    /\ Goto(t, "GetLookup")
    /\ UNCHANGED <<entries, now, stopCh, once, loopPc, tickerC, nCalls, nGets, rw, loc, snap, nCloses, rate, store, hvars>>

\* the lookup and the expiry test, then the load of Misses++ or of Hits++
GetLookup(t) ==
    /\ pc[t] = "GetLookup"
    /\ IF loc[t].key \notin DOMAIN entries \/ IsExpired(entries[loc[t].key], now)
       THEN /\ loc' = [loc EXCEPT ![t].tmp = metrics.Misses, ![t].ret = Nil]
            /\ Goto(t, "GetStoreMisses")
       ELSE /\ loc' = [loc EXCEPT ![t].tmp = metrics.Hits, ![t].ret = entries[loc[t].key].Value]
            /\ Goto(t, "GetStoreHits")
    /\ UNCHANGED <<entries, metrics, now, stopCh, once, loopPc, tickerC, nCalls, nGets, rw, snap, nCloses, rate, store, hvars>>

GetStoreMisses(t) ==
    /\ pc[t] = "GetStoreMisses"
    /\ metrics' = [metrics EXCEPT !.Misses = loc[t].tmp + 1]
    /\ Goto(t, "GetRUnlock")
    /\ UNCHANGED <<entries, now, stopCh, once, loopPc, tickerC, nCalls, nGets, rw, loc, snap, nCloses, rate, store, hvars>>

GetStoreHits(t) ==
    /\ pc[t] = "GetStoreHits"
    /\ metrics' = [metrics EXCEPT !.Hits = loc[t].tmp + 1]
    /\ Goto(t, "GetRUnlock")
    /\ UNCHANGED <<entries, now, stopCh, once, loopPc, tickerC, nCalls, nGets, rw, loc, snap, nCloses, rate, store, hvars>>

GetRUnlock(t) ==
    /\ RUnlock(t, "GetRUnlock")
    /\ UNCHANGED <<entries, metrics, now, stopCh, once, loopPc, tickerC, nCalls, nGets, snap, nCloses, rate, store, hvars>>

\* -- Metrics
MetricsCall(t) ==
    /\ Begin(t, "MetricsRLock", "", Nil)
    /\ UNCHANGED <<entries, metrics, now, stopCh, once, loopPc, tickerC, nGets, rw, snap, nCloses, rate, store, hvars>>

MetricsRLock(t) ==
    /\ RLock(t, "MetricsRLock", "MetricsCopy")
    /\ UNCHANGED <<entries, metrics, now, stopCh, once, loopPc, tickerC, nCalls, nGets, loc, snap, nCloses, rate, store, hvars>>

\* the fields of CacheMetrics in the order of the struct
Fields == <<"Hits", "Misses", "Evictions", "TotalReads", "TotalSize">>

\* return c.metrics: the struct is copied a word at a time
MetricsCopy(t) ==
    /\ pc[t] = "MetricsCopy"
    /\ loc' = [loc EXCEPT ![t].m = [@ EXCEPT ![Fields[loc[t].i + 1]] = metrics[Fields[loc[t].i + 1]]],
                          ![t].i = @ + 1]
    /\ Goto(t, IF loc[t].i + 1 = Len(Fields) THEN "MetricsRUnlock" ELSE "MetricsCopy")
    /\ UNCHANGED <<entries, metrics, now, stopCh, once, loopPc, tickerC, nCalls, nGets, rw, snap, nCloses, rate, store, hvars>>

MetricsRUnlock(t) ==
    /\ RUnlock(t, "MetricsRUnlock")
    /\ snap' = loc[t].m
    /\ UNCHANGED <<entries, metrics, now, stopCh, once, loopPc, tickerC, nCalls, nGets, nCloses, rate, store, hvars>>

\* -- Size
SizeCall(t) ==
    /\ Begin(t, "SizeRLock", "", Nil)
    /\ UNCHANGED <<entries, metrics, now, stopCh, once, loopPc, tickerC, nGets, rw, snap, nCloses, rate, store, hvars>>

SizeRLock(t) ==
    /\ RLock(t, "SizeRLock", "SizeLen")
    /\ UNCHANGED <<entries, metrics, now, stopCh, once, loopPc, tickerC, nCalls, nGets, loc, snap, nCloses, rate, store, hvars>>

\* return len(c.entries), and the deferred RUnlock
SizeLen(t) ==
    /\ RUnlock(t, "SizeLen")
    /\ UNCHANGED <<entries, metrics, now, stopCh, once, loopPc, tickerC, nCalls, nGets, snap, nCloses, rate, store, hvars>>

\* -- Set
SetCall(t, key, value) ==
    /\ Begin(t, "SetLock", key, value)
    /\ UNCHANGED <<entries, metrics, now, stopCh, once, loopPc, tickerC, nGets, rw, snap, nCloses, rate, store, hvars>>

SetLock(t) ==
    /\ Lock(t, "SetLock", "SetRun")
    /\ UNCHANGED <<entries, metrics, now, stopCh, once, loopPc, tickerC, nCalls, nGets, loc, snap, nCloses, rate, store, hvars>>

SetRun(t) ==
    /\ pc[t] = "SetRun"
    /\ \E order \in SetOrders(entries, now) :
         LET r == SetBody(entries, metrics, loc[t].key, loc[t].val, now, order)
         IN  /\ entries' = r.entries
             /\ metrics' = r.metrics
             /\ written' = With(Without(written, r.evicted), loc[t].key, Written(loc[t].val, now))
    /\ Goto(t, "SetUnlock")
    /\ UNCHANGED <<now, stopCh, once, loopPc, tickerC, nCalls, nGets, rw, loc, snap, nCloses, rate, store, last>>

SetUnlock(t) ==
    /\ Unlock(t, "SetUnlock")
    /\ UNCHANGED <<entries, metrics, now, stopCh, once, loopPc, tickerC, nCalls, nGets, snap, nCloses, rate, store, hvars>>

\* -- Delete
DeleteCall(t, key) ==
    /\ Begin(t, "DeleteLock", key, Nil)
    /\ UNCHANGED <<entries, metrics, now, stopCh, once, loopPc, tickerC, nGets, rw, snap, nCloses, rate, store, hvars>>

DeleteLock(t) ==
    /\ Lock(t, "DeleteLock", "DeleteRun")
    /\ UNCHANGED <<entries, metrics, now, stopCh, once, loopPc, tickerC, nCalls, nGets, loc, snap, nCloses, rate, store, hvars>>

DeleteRun(t) ==
    /\ pc[t] = "DeleteRun"
    /\ LET r == DeleteBody(entries, metrics, loc[t].key)
       IN  /\ entries' = r.entries
           /\ metrics' = r.metrics
    /\ written' = Without(written, {loc[t].key})
    /\ Goto(t, "DeleteUnlock")
    /\ UNCHANGED <<now, stopCh, once, loopPc, tickerC, nCalls, nGets, rw, loc, snap, nCloses, rate, store, last>>

DeleteUnlock(t) ==
    /\ Unlock(t, "DeleteUnlock")
    /\ UNCHANGED <<entries, metrics, now, stopCh, once, loopPc, tickerC, nCalls, nGets, snap, nCloses, rate, store, hvars>>

\* -- Clear
ClearCall(t) ==
    /\ Begin(t, "ClearLock", "", Nil)
    /\ UNCHANGED <<entries, metrics, now, stopCh, once, loopPc, tickerC, nGets, rw, snap, nCloses, rate, store, hvars>>

ClearLock(t) ==
    /\ Lock(t, "ClearLock", "ClearRun")
    /\ UNCHANGED <<entries, metrics, now, stopCh, once, loopPc, tickerC, nCalls, nGets, loc, snap, nCloses, rate, store, hvars>>

ClearRun(t) ==
    /\ pc[t] = "ClearRun"
    /\ LET r == ClearBody(entries, metrics)
       IN  /\ entries' = r.entries
           /\ metrics' = r.metrics
    /\ written' = EmptyMap
    /\ Goto(t, "ClearUnlock")
    /\ UNCHANGED <<now, stopCh, once, loopPc, tickerC, nCalls, nGets, rw, loc, snap, nCloses, rate, store, last>>

ClearUnlock(t) ==
    /\ Unlock(t, "ClearUnlock")
    /\ UNCHANGED <<entries, metrics, now, stopCh, once, loopPc, tickerC, nCalls, nGets, snap, nCloses, rate, store, hvars>>

\* -- Close
CloseCall(t) ==
    /\ Begin(t, "CloseOnce", "", Nil)
    /\ UNCHANGED <<entries, metrics, now, stopCh, once, loopPc, tickerC, nGets, rw, snap, nCloses, rate, store, hvars>>

\* c.once.Do(f): a caller that finds the Once done returns; otherwise it
\* takes the Once's mutex (held by whoever is at CloseFn) to run f
CloseOnce(t) ==
    /\ pc[t] = "CloseOnce"
    /\ IF OnceDone(once)
       THEN /\ Goto(t, "idle")
            /\ loc' = [loc EXCEPT ![t] = NoLocals]
            /\ nCloses' = nCloses + 1
       ELSE /\ \A u \in Threads \ {t} : pc[u] # "CloseFn"
            /\ Goto(t, "CloseFn")
            /\ UNCHANGED <<loc, nCloses>>
    /\ UNCHANGED <<entries, metrics, now, stopCh, once, loopPc, tickerC, nCalls, nGets, rw, snap, rate, store, hvars>>

\* a Close that empties the cache as it stops the loop
CloseFn_Wipes(t) ==
    /\ pc[t] = "CloseFn"
    /\ stopCh' = CloseChan(stopCh)
    /\ once' = TRUE
    /\ entries' = EmptyMap
    /\ metrics' = [metrics EXCEPT !.TotalSize = 0]
    /\ Goto(t, "idle")
    /\ loc' = [loc EXCEPT ![t] = NoLocals]
    /\ nCloses' = nCloses + 1
    /\ UNCHANGED <<now, loopPc, tickerC, nCalls, nGets, rw, snap, rate, store, hvars>>

\* f = func() { close(c.stopCh) }, then the Once is marked done and unlocked
CloseFn(t) ==
    /\ pc[t] = "CloseFn"
    /\ stopCh' = CloseChan(stopCh)
    /\ once' = TRUE
    /\ Goto(t, "idle")
    /\ loc' = [loc EXCEPT ![t] = NoLocals]
    /\ nCloses' = nCloses + 1
    /\ UNCHANGED <<entries, metrics, now, loopPc, tickerC, nCalls, nGets, rw, snap, rate, store, hvars>>

\* -- the cleanup goroutine
\* case <-ticker.C
LoopTick ==
    /\ loopPc = "select"
    /\ tickerC = 1
    /\ tickerC' = 0
    /\ loopPc' = "cleanupLock"
    /\ UNCHANGED <<entries, metrics, now, stopCh, once, nCalls, nGets, cvars, hvars>>

CleanupLock ==
    /\ loopPc = "cleanupLock"
    /\ CanLock
    /\ rw' = [rw EXCEPT !.writer = "cleanup"]
    /\ loopPc' = "cleanupRun"
    /\ UNCHANGED <<entries, metrics, now, stopCh, once, tickerC, nCalls, nGets, pc, loc, snap, nCloses, rate, store, hvars>>

CleanupRun ==
    /\ loopPc = "cleanupRun"
    /\ LET r == CleanupBody(entries, metrics, now)
       IN  /\ entries' = r.entries
           /\ metrics' = r.metrics
    /\ loopPc' = "cleanupUnlock"
    /\ UNCHANGED <<now, stopCh, once, tickerC, nCalls, nGets, cvars, hvars>>

CleanupUnlock ==
    /\ loopPc = "cleanupUnlock"
    /\ rw' = [rw EXCEPT !.writer = "none"]
    /\ loopPc' = "select"
    /\ UNCHANGED <<entries, metrics, now, stopCh, once, tickerC, nCalls, nGets, pc, loc, snap, nCloses, rate, store, hvars>>

NextConc ==
    \/ \E t \in Threads, key \in Keys : GetCall(t, key)
    \/ \E t \in Threads : GetRLock(t)
    \/ \E t \in Threads : GetLoadTotalReads(t)
    \/ \E t \in Threads : GetStoreTotalReads(t)
    \/ \E t \in Threads : GetLookup(t)
    \/ \E t \in Threads : GetStoreMisses(t)
    \/ \E t \in Threads : GetStoreHits(t)
    \/ \E t \in Threads : GetRUnlock(t)
    \/ \E t \in Threads : MetricsCall(t)
    \/ \E t \in Threads : MetricsRLock(t)
    \/ \E t \in Threads : MetricsCopy(t)
    \/ \E t \in Threads : MetricsRUnlock(t)
    \/ \E t \in Threads : SizeCall(t)
    \/ \E t \in Threads : SizeRLock(t)
    \/ \E t \in Threads : SizeLen(t)
    \/ \E t \in Threads, key \in Keys, value \in Values : SetCall(t, key, value)
    \/ \E t \in Threads : SetLock(t)
    \/ \E t \in Threads : SetRun(t)
    \/ \E t \in Threads : SetUnlock(t)
    \/ \E t \in Threads, key \in Keys : DeleteCall(t, key)
    \/ \E t \in Threads : DeleteLock(t)
    \/ \E t \in Threads : DeleteRun(t)
    \/ \E t \in Threads : DeleteUnlock(t)
    \/ \E t \in Threads : ClearCall(t)
    \/ \E t \in Threads : ClearLock(t)
    \/ \E t \in Threads : ClearRun(t)
    \/ \E t \in Threads : ClearUnlock(t)
    \/ \E t \in Threads : CloseCall(t)
    \/ \E t \in Threads : CloseOnce(t)
    \/ \E t \in Threads : CloseFn(t)
    \/ LoopTick
    \/ CleanupLock
    \/ CleanupRun
    \/ CleanupUnlock
    \/ LoopReturn
    \/ Tick

SpecConc == Init /\ [][NextConc]_vars

\* the steps of goroutine t inside a call, and those of cleanup()
Run(t) ==
    \/ GetRLock(t) \/ GetLoadTotalReads(t) \/ GetStoreTotalReads(t) \/ GetLookup(t)
    \/ GetStoreMisses(t) \/ GetStoreHits(t) \/ GetRUnlock(t)
    \/ MetricsRLock(t) \/ MetricsCopy(t) \/ MetricsRUnlock(t)
    \/ SizeRLock(t) \/ SizeLen(t)
    \/ SetLock(t) \/ SetRun(t) \/ SetUnlock(t)
    \/ DeleteLock(t) \/ DeleteRun(t) \/ DeleteUnlock(t)
    \/ ClearLock(t) \/ ClearRun(t) \/ ClearUnlock(t)
    \/ CloseOnce(t) \/ CloseFn(t)
Sweep == CleanupLock \/ CleanupRun \/ CleanupUnlock

\* the calls of SpecConcLive are on one key with one value: which goroutine
\* waits for which does not depend on the data
FairKeys == {"a"}
FairValues == {"v1"}

NextConcLive ==
    \/ \E t \in Threads, key \in FairKeys : GetCall(t, key)
    \/ \E t \in Threads : GetRLock(t)
    \/ \E t \in Threads : GetLoadTotalReads(t)
    \/ \E t \in Threads : GetStoreTotalReads(t)
    \/ \E t \in Threads : GetLookup(t)
    \/ \E t \in Threads : GetStoreMisses(t)
    \/ \E t \in Threads : GetStoreHits(t)
    \/ \E t \in Threads : GetRUnlock(t)
    \/ \E t \in Threads : MetricsCall(t)
    \/ \E t \in Threads : MetricsRLock(t)
    \/ \E t \in Threads : MetricsCopy(t)
    \/ \E t \in Threads : MetricsRUnlock(t)
    \/ \E t \in Threads : SizeCall(t)
    \/ \E t \in Threads : SizeRLock(t)
    \/ \E t \in Threads : SizeLen(t)
    \/ \E t \in Threads, key \in FairKeys, value \in FairValues : SetCall(t, key, value)
    \/ \E t \in Threads : SetLock(t)
    \/ \E t \in Threads : SetRun(t)
    \/ \E t \in Threads : SetUnlock(t)
    \/ \E t \in Threads, key \in FairKeys : DeleteCall(t, key)
    \/ \E t \in Threads : DeleteLock(t)
    \/ \E t \in Threads : DeleteRun(t)
    \/ \E t \in Threads : DeleteUnlock(t)
    \/ \E t \in Threads : ClearCall(t)
    \/ \E t \in Threads : ClearLock(t)
    \/ \E t \in Threads : ClearRun(t)
    \/ \E t \in Threads : ClearUnlock(t)
    \/ \E t \in Threads : CloseCall(t)
    \/ \E t \in Threads : CloseOnce(t)
    \/ \E t \in Threads : CloseFn(t)
    \/ LoopTick
    \/ CleanupLock
    \/ CleanupRun
    \/ CleanupUnlock
    \/ LoopReturn
    \/ Tick

\* the scheduler runs every goroutine that can take a step, and the mutex
\* hands the lock to a goroutine that keeps waiting for it
SpecConcLive ==
    /\ Init /\ [][NextConcLive]_vars
    /\ \A t \in Threads : SF_vars(Run(t))
    /\ SF_vars(Sweep)

\* ==== properties =========================================================

\* a step that is a call of Set / the second of two Set calls on one key
\* with no time and no other call between them
IsSetStep == nCalls' = nCalls + 1 /\ last'.op = "Set"
IsRepeatedSetStep == IsSetStep /\ last.op = "Set" /\ last.t = now /\ last'.key = last.key

\* ---- C1 -----------------------------------------------------------------
\* C1 (capacity bound): after each Set call completes, the number of entries
\* is at most maxSize, for every key, the empty string included.
C1_CapacityBound == last.op = "Set" => Cardinality(DOMAIN entries) <= MaxSize

\* ---- C2 -----------------------------------------------------------------
\* C2 (TTL liveness of a written value): a Get(k) at a time t' < t + ttl,
\* where Set(k, v) was called at t and k was not deleted, cleared,
\* overwritten or evicted under capacity pressure since, returns v and is
\* counted as a hit.
C2_TtlLiveness ==
    (last.op = "Get" /\ last.key \in DOMAIN written /\ last.t < written[last.key].t + Ttl)
        => /\ last.ret = written[last.key].val
           /\ last.d.Hits = 1
           /\ last.d.Misses = 0

\* a Get that hit an entry written at an earlier instant
C2_Witness ==
    /\ last.op = "Get"
    /\ last.key \in DOMAIN written
    /\ written[last.key].t < last.t
    /\ last.t < written[last.key].t + Ttl
    /\ last.ret \in Values

C4_EvictionOrder ==
    [][(IsSetStep /\ Cardinality(DOMAIN entries) >= MaxSize /\ ExpiredKeys(entries, now) = {})
           => /\ Cardinality(last'.evicted) = 1
              /\ last'.swept = {}
              /\ last'.d.Evictions = 1
              /\ \A k \in last'.evicted : \A j \in DOMAIN entries :
                     entries[k].ExpiresAt <= entries[j].ExpiresAt]_vars

\* ---- C5 -----------------------------------------------------------------
\* C5 (overwrite): after Set(k, v1) followed immediately by Set(k, v2), a
\* Get(k) returns v2, and the number of entries is what it was after the
\* first Set.
C5_Overwrite ==
    [][IsRepeatedSetStep
           => /\ GetBody(entries', metrics', last'.key, now').ret = last'.val
              /\ Cardinality(DOMAIN entries') = Cardinality(DOMAIN entries)]_vars

\* ---- C6 -----------------------------------------------------------------
\* C6 (Set is idempotent for a key): Set(k, v) right after Set(k, v) leaves
\* the cached keys and their values as the first call left them.
C6_SetIdempotent ==
    [][(IsRepeatedSetStep /\ last'.val = last.val)
           => /\ DOMAIN entries' = DOMAIN entries
              /\ \A k \in DOMAIN entries : entries'[k].Value = entries[k].Value]_vars

\* ---- C7 -----------------------------------------------------------------
\* C7 (metrics accounting of sequential reads): each Get adds exactly 1 to
\* TotalReads and to exactly one of Hits and Misses, so that after n Get
\* calls Hits + Misses = TotalReads = n.
C7_MetricsAccounting ==
    /\ metrics.Hits + metrics.Misses = metrics.TotalReads
    /\ metrics.TotalReads = nGets
    /\ last.op = "Get" =>
           /\ last.d.TotalReads = 1
           /\ last.d.Hits + last.d.Misses = 1
           /\ last.d.Hits \in {0, 1}

\* reads of both kinds were counted, a miss on an expired entry last
C7_Witness ==
    /\ metrics.Hits >= 1
    /\ last.op = "Get"
    /\ last.d.Misses = 1
    /\ last.key \in DOMAIN entries

\* ---- C8 -----------------------------------------------------------------
AllReturned == \A t \in Threads : pc[t] = "idle"

\* C8 (no lost or double-counted reads under concurrency): once all n Get
\* calls of the goroutines have returned, TotalReads = n and
\* Hits + Misses = n.
C8_NoLostReads ==
    AllReturned => /\ metrics.TotalReads = nGets
                   /\ metrics.Hits + metrics.Misses = nGets

\* ---- C9 -----------------------------------------------------------------
\* the goroutine is at a statement that stores to c.entries or c.metrics
WritesShared(t) ==
    pc[t] \in {"GetStoreTotalReads", "GetStoreMisses", "GetStoreHits",
               "SetRun", "DeleteRun", "ClearRun"}

\* the goroutine is at a statement that loads from c.entries or c.metrics
ReadsShared(t) ==
    pc[t] \in {"GetLoadTotalReads", "GetLookup", "MetricsCopy", "SizeLen"}

\* C9 (data-race freedom): every store to entries or metrics is made by a
\* goroutine holding the lock exclusively, and no goroutine is at a store
\* while another is at a load or a store.
C9_RaceFree ==
    /\ \A t \in Threads : WritesShared(t) => rw.writer = t
    /\ loopPc = "cleanupRun" => rw.writer = "cleanup"
    /\ \A t \in Threads : \A u \in Threads \ {t} :
           ~(WritesShared(t) /\ (WritesShared(u) \/ ReadsShared(u)))
    /\ \A t \in Threads : ~(loopPc = "cleanupRun" /\ (WritesShared(t) \/ ReadsShared(t)))

\* ---- C10 ----------------------------------------------------------------
\* C10 (Metrics returns a consistent snapshot): every value returned by
\* Metrics() satisfies Hits + Misses = TotalReads.
C10_ConsistentSnapshot == snap.Hits + snap.Misses = snap.TotalReads

\* ---- C11 ----------------------------------------------------------------
NoChange == Delta(CacheMetrics, CacheMetrics)

\* C11 (Clear resets size, not history): after Clear the map is empty and
\* TotalSize is 0, a Get on any key that was stored before is a miss, and
\* Hits, Misses, Evictions and TotalReads are what they were before.
C11_ClearResets ==
    last.op = "Clear" =>
        /\ SizeBody(entries) = 0
        /\ metrics.TotalSize = 0
        /\ last.d = NoChange
        /\ \A k \in last.removed :
               /\ GetBody(entries, metrics, k, now).ret = Nil
               /\ GetBody(entries, metrics, k, now).metrics.Misses = metrics.Misses + 1

\* a Clear that removed entries of a cache with a hit on record
C11_Witness ==
    /\ last.op = "Clear"
    /\ last.removed # {}
    /\ metrics.Hits >= 1

\* ---- C12 ----------------------------------------------------------------
\* C12 (Close is idempotent): however many Close calls run, one after the
\* other or at the same time, the stop signal is closed exactly once and no
\* call panics: it is closed as soon as one call has returned, and never
\* closed a second time.
C12_CloseIdempotent ==
    /\ stopCh \in {"open", "closed"}
    /\ (stopCh = "closed") = once
    /\ nCloses >= 1 => stopCh = "closed"

\* two Close calls have returned
C12_Witness == nCloses = 2 /\ stopCh = "closed"

\* ---- C13 ----------------------------------------------------------------
\* goroutine t takes the step that leaves statement label
Leaves(t, label) == pc[t] = label /\ pc'[t] # label

C14_LoopLifetime ==
    /\ [](loopPc = "returned" => once /\ stopCh = "closed")
    /\ (once ~> loopPc = "returned")

\* the loop has returned and left a pending tick unserved
C14_Witness == loopPc = "returned" /\ tickerC = 1

\* ---- C15 ----------------------------------------------------------------
\* a step of the background goroutine that removes an entry or counts an eviction
IsSweepEffect ==
    /\ nCalls' = nCalls
    /\ entries' # entries \/ metrics'.Evictions # metrics.Evictions

\* the stop signal is never reopened and a returned loop is never started again
NeverRunningAgain ==
    /\ stopCh = "closed" => stopCh' = "closed"
    /\ once => once'
    /\ loopPc = "returned" => loopPc' = "returned"

\* C15 as stated (Closed state): once Close has returned no background sweep
\* removes an entry or increments Evictions, and the cache never goes back
\* to Running.
C15_Original == [][(once => ~IsSweepEffect) /\ NeverRunningAgain]_vars

\* C15 amended (Closed state): Close returns without waiting for the cleanup
\* goroutine, so a sweep whose tick is pending may still run after Close has
\* returned; once the loop has returned no background sweep removes an entry
\* or increments Evictions, and the cache never goes back to Running.
C15_ClosedState == [][(loopPc = "returned" => ~IsSweepEffect) /\ NeverRunningAgain]_vars

\* the loop has returned with a tick pending and an expired entry in the map
C15_Witness ==
    /\ loopPc = "returned"
    /\ tickerC = 1
    /\ ExpiredKeys(entries, now) # {}

\* ---- C16 ----------------------------------------------------------------
\* a step that is a call of Delete / of Get
IsDeleteStep == nCalls' = nCalls + 1 /\ last'.op = "Delete"
IsGetStep == nCalls' = nCalls + 1 /\ last'.op = "Get"

\* C16 (Delete): Delete(k) removes the entry of k when there is one and
\* nothing otherwise; every other entry, Hits, Misses, Evictions and
\* TotalReads stay as they are, and TotalSize becomes the new entry count.
C16_Delete ==
    [][IsDeleteStep =>
        /\ DOMAIN entries' = DOMAIN entries \ {last'.key}
        /\ \A k \in DOMAIN entries' : entries'[k] = entries[k]
        /\ last'.d = NoChange
        /\ metrics'.TotalSize = Cardinality(DOMAIN entries')
        /\ last'.key \notin DOMAIN entries => entries' = entries
      ]_vars

\* a Delete that removed its key and left another entry in the map
C16_Witness ==
    /\ last.op = "Delete"
    /\ last.removed = {last.key}
    /\ entries # EmptyMap

\* ---- C17 ----------------------------------------------------------------
\* C17 (Get makes no structural change): Get leaves the entries map,
\* TotalSize and Evictions unchanged, also when the entry asked for is
\* expired; an expired entry leaves the map only through a sweep, a capacity
\* eviction, Delete or Clear.
C17_GetNoStructuralChange ==
    [][/\ IsGetStep =>
            /\ entries' = entries
            /\ metrics'.TotalSize = metrics.TotalSize
            /\ metrics'.Evictions = metrics.Evictions
       /\ \A k \in ExpiredKeys(entries, now) :
            k \notin DOMAIN entries' =>
                /\ last'.op \in {"cleanup", "Set", "Delete", "Clear"}
                /\ k \in last'.swept \cup last'.evicted \cup last'.removed
      ]_vars

\* a Get has missed on an expired entry, which is in the map after it and
\* still counted by TotalSize
C17_Witness ==
    /\ last.op = "Get"
    /\ last.ret = Nil
    /\ last.key \in ExpiredKeys(entries, now)
    /\ last.t = now
    /\ metrics.TotalSize = Cardinality(DOMAIN entries)
    /\ metrics.Evictions = 0

\* ---- C18 ----------------------------------------------------------------
\* C18 (HitRate): the hit rate of a snapshot is 0 when TotalReads is 0 and
\* Hits / TotalReads * 100 otherwise, so nothing is divided by zero; for a
\* snapshot with Hits <= TotalReads it lies between 0 and 100, and is 100
\* exactly when there were reads and every one was a hit.
C18_HitRate ==
    last.op = "HitRate" =>
        /\ rate.den > 0
        /\ snap.TotalReads = 0 => rate.num = 0
        /\ snap.TotalReads # 0 => rate.num * snap.TotalReads = snap.Hits * 100 * rate.den
        /\ snap.Hits <= snap.TotalReads =>
               /\ 0 <= rate.num
               /\ rate.num <= 100 * rate.den
               /\ (rate.num = 100 * rate.den) = (snap.TotalReads > 0 /\ snap.Hits = snap.TotalReads)

\* the hit rate of a snapshot with reads, some of them hits and some not
C18_Witness ==
    /\ last.op = "HitRate"
    /\ 0 < snap.Hits
    /\ snap.Hits < snap.TotalReads
    /\ 0 < rate.num
    /\ rate.num < 100 * rate.den

\* ---- C19 ----------------------------------------------------------------
\* C19 (graceful degradation): while the secret store is down (the fetch
\* fails), DBConfig for a tenant whose configuration was cached earlier, and
\* is in the cache still, returns that configuration and no error.
C19_GracefulDegradation ==
    [][(/\ nCalls' = nCalls + 1
        /\ last'.op = "DBConfig"
        /\ last'.val = Fail
        /\ last'.key \in DOMAIN written
        /\ last'.key \in DOMAIN entries)
       => last'.ret = written[last'.key].val
      ]_vars

\* ---- C20 ----------------------------------------------------------------
\* C20 (cumulative counters are monotonic): in every step of Get, Set,
\* Delete, Clear, Size, Metrics, Close and of the background sweep, taken one
\* at a time, none of Hits, Misses, Evictions and TotalReads decreases.
C20_CountersMonotonic ==
    [][/\ metrics'.Hits >= metrics.Hits
       /\ metrics'.Misses >= metrics.Misses
       /\ metrics'.Evictions >= metrics.Evictions
       /\ metrics'.TotalReads >= metrics.TotalReads
      ]_vars

\* a Metrics call has returned counters with an eviction and a read on
\* record, and the cache has them still
C20_Witness ==
    /\ last.op = "Metrics"
    /\ snap.Evictions >= 1
    /\ snap.TotalReads >= 1
    /\ snap = metrics

\* ---- C21 ----------------------------------------------------------------
\* the keys of the entries that are in the map and not expired
LiveKeys(es, t) == DOMAIN es \ ExpiredKeys(es, t)

\* C21 (Set evicts a live entry only as a last resort): a Set on a map below
\* capacity removes no entry; a Set on a map at capacity first removes every
\* expired entry, and removes an entry that is not expired only if the map
\* is at capacity still after that sweep.
C21_LastResortEviction ==
    [][IsSetStep =>
        IF Cardinality(DOMAIN entries) < MaxSize
        THEN /\ last'.swept = {}
             /\ last'.evicted = {}
             /\ DOMAIN entries \subseteq DOMAIN entries'
        ELSE /\ last'.swept = ExpiredKeys(entries, now)
             /\ ExpiredKeys(entries, now) \cap DOMAIN entries' \subseteq {last'.key}
             /\ \A k \in LiveKeys(entries, now) :
                    k \notin DOMAIN entries' =>
                        /\ Cardinality(LiveKeys(entries, now)) >= MaxSize
                        /\ last'.evicted = {k}
      ]_vars

\* a Set at capacity whose sweep of expired entries made room, so that no
\* live entry was evicted
C21_Witness ==
    /\ last.op = "Set"
    /\ last.swept # {}
    /\ last.evicted = {}
    /\ Cardinality(DOMAIN entries) = MaxSize

\* ---- C22 ----------------------------------------------------------------
\* a step that is a sweep of the cleanup loop
IsSweepStep == nCalls' = nCalls /\ tickerC = 1 /\ tickerC' = 0

\* C22 (what a background sweep does): a sweep deletes all the entries that
\* are expired at the time of the sweep and no other; every other entry
\* keeps its value and expiresAt, Evictions grows by the number of entries
\* deleted, and Hits, Misses and TotalReads stay as they are.
C22_SweepFrame ==
    [][IsSweepStep =>
        /\ DOMAIN entries' = LiveKeys(entries, now)
        /\ \A k \in DOMAIN entries' : entries'[k] = entries[k]
        /\ metrics'.Evictions = metrics.Evictions + Cardinality(DOMAIN entries \ DOMAIN entries')
        /\ metrics'.Hits = metrics.Hits
        /\ metrics'.Misses = metrics.Misses
        /\ metrics'.TotalReads = metrics.TotalReads
      ]_vars

\* a sweep has deleted two expired entries at once: nothing since, and the
\* two evictions are on record
C22_Witness ==
    /\ last.op = "cleanup"
    /\ last.t = now
    /\ Cardinality(last.swept) = 2
    /\ last.d.Evictions = 2

\* ---- C23 ----------------------------------------------------------------
\* C23 (TotalSize tracks the entry count): whenever no writer holds the
\* lock, that is after each completed Set, Delete, Clear or sweep in any
\* order, the TotalSize of the metrics is Size(), the number of entries.
C23_TotalSizeTracksSize ==
    rw.writer = "none" => metrics.TotalSize = SizeBody(entries)

\* every call has returned, a sweep has evicted an entry, and an entry is
\* in the map
C23_Witness ==
    /\ AllReturned
    /\ rw.writer = "none"
    /\ metrics.Evictions >= 1
    /\ metrics.TotalSize = 1

\* ---- C24 ----------------------------------------------------------------
\* C24 (fixed, non-sliding expiry): in every state the expiresAt of each
\* entry is the time of the last Set on its key plus ttl; the expiresAt of
\* an entry that stays in the map changes in no step but a Set on its key,
\* which makes it now + ttl.
C24_FixedExpiry ==
    /\ [](\A k \in DOMAIN entries :
            /\ k \in DOMAIN written
            /\ entries[k].ExpiresAt = written[k].t + Ttl)
    /\ [][/\ \A k \in DOMAIN entries \cap DOMAIN entries' :
                entries'[k].ExpiresAt # entries[k].ExpiresAt => IsSetStep /\ last'.key = k
          /\ IsSetStep => entries'[last'.key].ExpiresAt = now + Ttl
         ]_vars

\* a Get has hit an entry some time after its Set, and the entry expires
\* when it did before
C24_Witness ==
    /\ last.op = "Get"
    /\ last.ret \in Values
    /\ last.key \in DOMAIN entries
    /\ last.key \in DOMAIN written
    /\ last.t > written[last.key].t
    /\ entries[last.key].ExpiresAt < last.t + Ttl

IsDBConfigStep == nCalls' = nCalls + 1 /\ last'.op = "DBConfig"

\* C26 (read-through in DBConfig): for a tenant ID that is not empty,
\* DBConfig asks the secret store exactly when Get on the tenant's key finds
\* nothing; on a hit it returns the cached configuration, on a miss with a
\* successful fetch it stores the fetched configuration under the key and
\* returns it, and a DBConfig within the ttl of that (the entry not evicted
\* or invalidated since) is served from the cache.
C26_ReadThrough ==
    [][(IsDBConfigStep /\ last'.key # "") =>
        LET key == last'.key
            g   == GetBody(entries, metrics, key, now)
        IN  /\ last'.fetched = (g.ret = Nil)
            /\ g.ret # Nil => last'.ret = g.ret /\ entries' = entries
            /\ (g.ret = Nil /\ last'.val # Fail) =>
                   /\ last'.ret = last'.val
                   /\ key \in DOMAIN entries'
                   /\ entries'[key] = CacheEntry(last'.val, now + Ttl)
            /\ (key \in DOMAIN written /\ now < written[key].t + Ttl) =>
                   /\ ~last'.fetched
                   /\ last'.ret = written[key].val
      ]_vars

\* a DBConfig was served from the cache, some time after the fetch that
\* filled it, while the secret store was answering with an error
C26_Witness ==
    /\ last.op = "DBConfig"
    /\ ~last.fetched
    /\ last.resp = StoreError
    /\ last.ret \in Values
    /\ last.key \in DOMAIN written
    /\ last.t > written[last.key].t

\* ---- C27 ----------------------------------------------------------------
\* the answers of the secret store that make fetchDatabaseConfig fail
FailingResponses == {StoreError, NilSecret, "{"}

\* C27 (failed fetches are never cached): a DBConfig with an empty tenant
\* ID, or one that misses the cache and whose fetch fails (store error,
\* empty secret value, secret that does not parse), returns an error and
\* leaves the entries as they are; a DBConfig for the same tenant right
\* after it asks the store again.
C27_FailuresNotCached ==
    [][IsDBConfigStep =>
        /\ (\/ last'.key = ""
            \/ /\ GetBody(entries, metrics, last'.key, now).ret = Nil
               /\ last'.resp \in FailingResponses) =>
               /\ last'.ret = Err
               /\ entries' = entries
               /\ metrics'.TotalSize = metrics.TotalSize
               /\ metrics'.Evictions = metrics.Evictions
        /\ (/\ last.op = "DBConfig"
            /\ last.ret = Err
            /\ last.key # ""
            /\ last'.key = last.key) => last'.fetched
      ]_vars

\* a DBConfig got a secret that does not parse and returned an error, and
\* the configuration of another tenant is in the cache as before
C27_Witness ==
    /\ last.op = "DBConfig"
    /\ last.resp = "{"
    /\ last.fetched
    /\ last.ret = Err
    /\ last.key \notin DOMAIN entries
    /\ entries # EmptyMap

\* ---- C28 ----------------------------------------------------------------
\* a tick has fired after the expiresAt of e has passed
TickFiredAfter(e) == \E tau \in 0..now : tau > e.ExpiresAt /\ tau % Period = 0

\* C28 (eventual reclamation while Running): while Close has not been
\* called, an entry that is expired, and that no Delete, Clear or Set takes
\* away, is eventually deleted by a background sweep; the sweep of the first
\* tick that fires after its expiresAt has passed deletes it, so while it is
\* in the map after such a tick that sweep is still pending.
C28_EventualReclamation ==
    /\ [](loopPc = "select" =>
            \A k \in ExpiredKeys(entries, now) :
                TickFiredAfter(entries[k]) => tickerC = 1)
    /\ \A k \in Keys :
         (k \in ExpiredKeys(entries, now) /\ ~once)
            ~> (k \notin ExpiredKeys(entries, now) \/ once)

\* the sweep has just deleted an expired entry of a cache that was not closed
C28_Witness ==
    /\ last.op = "cleanup"
    /\ last.t = now
    /\ Cardinality(last.swept) = 1
    /\ ~once
    /\ loopPc = "select"
    /\ tickerC = 0

\* ---- C29 ----------------------------------------------------------------
\* the statements at which a goroutine waits for c.mu
LockLabels ==
    {"GetRLock", "MetricsRLock", "SizeRLock", "SetLock", "DeleteLock", "ClearLock"}

\* C29 (deadlock freedom): with goroutines calling Get, Set, Delete, Clear,
\* Size, Metrics and Close while the sweep runs, every call eventually
\* returns under fair scheduling; no goroutine acquires the lock while it
\* holds it, the bodies of Set and cleanup (with the eviction helpers) run
\* under the write lock of their caller, and a goroutine inside a data
\* operation that is not waiting for the lock can take its next step.
C29_DeadlockFree ==
    /\ \A t \in Threads : (pc[t] # "idle") ~> (pc[t] = "idle")
    /\ (loopPc \in {"cleanupLock", "cleanupRun", "cleanupUnlock"}) ~> (loopPc = "select")
    /\ [][/\ \A t \in Threads :
               /\ (pc[t] \in LockLabels /\ pc'[t] # pc[t]) =>
                      rw.writer # t /\ t \notin rw.readers
               /\ Leaves(t, "SetRun") => rw.writer = t
          /\ (loopPc = "cleanupLock" /\ loopPc' # loopPc) => rw.writer # "cleanup"
          /\ (loopPc = "cleanupRun" /\ loopPc' # loopPc) => rw.writer = "cleanup"
         ]_vars
    /\ [](\A t \in Threads :
            pc[t] \notin LockLabels \cup {"idle", "CloseOnce"} => ENABLED Run(t))

\* a Set and the sweep both wait for the lock that a reader holds
C29_Witness ==
    \E t \in Threads, u \in Threads :
        /\ pc[t] = "SetLock"
        /\ rw.readers = {u}
        /\ loopPc = "cleanupLock"

\* ---- C30 ----------------------------------------------------------------
\* C30 (no cache with a non-positive policy): for a configuration with a
\* prefix, the store is built over NewCache(ttl, maxSize) with ttl the
\* configured duration when that is > 0 and 5 minutes otherwise, and maxSize
\* the configured size when that is > 0 and 1000 otherwise, so ttl > 0 and
\* maxSize >= 1; for an empty prefix the result is an error, and no cache
\* and no cleanup loop exists.
C30_PositivePolicy ==
    store.res.called =>
        LET cfg == store.cfg
            res == store.res
        IN  /\ cfg.Prefix = "" => res.err /\ res.cache = NoCache
            /\ res.err => res.cache = NoCache
            /\ cfg.Prefix # "" =>
                   /\ res.err = ~store.awsOK
                   /\ ~res.err =>
                          /\ res.cache.ttl = IF cfg.Cache > 0 THEN cfg.Cache ELSE 300
                          /\ res.cache.maxSize = IF cfg.MaxSize > 0 THEN cfg.MaxSize ELSE 1000
                          /\ res.cache.ttl > 0
                          /\ res.cache.maxSize >= 1
                          /\ res.cache.loopPc = "select"

\* a store was built from a configuration with a zero duration and a
\* negative size
C30_Witness ==
    /\ store.res.called
    /\ ~store.res.err
    /\ store.cfg.Cache = 0
    /\ store.cfg.MaxSize < 0
    /\ store.res.cache.maxSize = DefaultCacheMaxSize

====
